---- MODULE Spec2Model ----
(***************************************************************************)
(* A model of the inngest-js comm handler:                                 *)
(*   src/src/components/InngestCommHandler.ts  (InngestCommHandler)        *)
(*   src/src/deno/fresh.ts                     (DenoFreshCommHandler)      *)
(*   src/src/helpers/errors.ts                 (OutgoingOpError)           *)
(*                                                                         *)
(* One handler instance serves overlapping requests.  JavaScript runs one  *)
(* continuation at a time, so every action below is the code that runs     *)
(* between two `await`s of one request.                                    *)
(***************************************************************************)
EXTENDS Naturals, Sequences, FiniteSets, TLC

\* Number of distinct signing keys the environment snapshots may offer.
NumKeys == 2
\* Number of functions handed to the constructor.
NumFns == 1

\* The request flows that may overlap on the instance.
Reqs == {"r1", "r2"}

\* The ids a function list is drawn from, and the longest list.
NumDeclared == 3
MaxFunctions == 3

-----------------------------------------------------------------------------
(* Signing keys.  A key is kept as the two parts the code's regular        *)
(* expression /^signkey-(test|prod)-/ splits it into; Raw is the string.   *)

KeyPrefix(i) ==
    CASE i % 3 = 1 -> "signkey-test-"
      [] i % 3 = 2 -> "signkey-prod-"
      [] OTHER     -> ""

Key(i) == [prefix |-> KeyPrefix(i), body |-> "a" \o ToString(i)]

Keys == { Key(i) : i \in 1..NumKeys }

\* `undefined` (and the empty string): what `!this.signingKey` takes as unset.
NoKey == [prefix |-> "", body |-> ""]

Raw(k) == k.prefix \o k.body

\* sha256().update(key, "hex").digest("hex"), kept symbolic.
Sha256Hex(s) == "sha256(" \o s \o ")"

hashedSigningKey(k) ==
    IF Raw(k) = "" THEN "" ELSE k.prefix \o Sha256Hex(k.body)

-----------------------------------------------------------------------------
(* JavaScript values that cross the handler, and JSON.stringify on them.   *)

VError     == "new Error('boom')"
VOpError   == "new OutgoingOpError(op)"
VZodError  == "ZodError"
VTypeError == "TypeError"
VString    == "'boom'"
VUndefined == "undefined"
VCircular  == "circular object"
VErrData   == "{message: 'bad request'}"
VOk        == "{ok: true}"
VWait      == "{op: 'wait'}"

\* What a callback, the engine or the transport may throw: an Error, a
\* string, undefined, and an object JSON.stringify cannot serialize.
Thrown == {VError, VString, VUndefined, VCircular}
\* What the engine may throw: the above and an OutgoingOpError.
EngineThrown == Thrown \cup {VOpError}
\* What the engine may return as the body of its result.
EngineBodies == {VOk, VWait, VUndefined, VCircular}

\* instanceof Error
IsError(v) == v \in {VError, VOpError, VZodError, VTypeError}

\* JSON.stringify(v): it throws a TypeError on a circular structure, yields
\* undefined for undefined, and "{}" for an Error (no enumerable own fields).
JSONStringify(v) ==
    CASE v = VCircular  -> [throws |-> TRUE,  out |-> ""]
      [] v = VUndefined -> [throws |-> FALSE, out |-> VUndefined]
      [] IsError(v)     -> [throws |-> FALSE, out |-> "{}"]
      [] v = VString    -> [throws |-> FALSE, out |-> "\"boom\""]
      [] v = VErrData   -> [throws |-> FALSE, out |-> "{\"message\":\"bad request\"}"]
      [] v = VOk        -> [throws |-> FALSE, out |-> "{\"ok\":true}"]
      [] v = VWait      -> [throws |-> FALSE, out |-> "{\"op\":\"wait\"}"]
      [] OTHER          -> [throws |-> FALSE, out |-> "\"" \o v \o "\""]

\* err.stack || err.message of an Error
StackOf(v) == "Error: " \o v

-----------------------------------------------------------------------------
(* Construction-time configuration and the served functions.               *)

\* `version` of ../version, kept symbolic.
Version == "<version>"

AppName == "app"

\* fn.id(this.name) of the i-th served function.
FnId(i) == AppName \o "-fn" \o ToString(i)

\* this.fns: the ids the constructor's reduce collected.
fns == { FnId(i) : i \in 1..NumFns }

\* Function ids a request may name: the served ones, one that is not served,
\* one that names a property every object inherits, and the empty string.
ReqFnIds == fns \cup {AppName \o "-gone", "toString", ""}

\* this.fns[functionId]: "own" for a served function, "inherited" for a
\* property of Object.prototype (truthy, but without runFn), else "undefined".
Lookup(functionId) ==
    IF functionId \in fns THEN "own"
    ELSE IF functionId = "toString" THEN "inherited"
    ELSE "undefined"

InngestRegisterUrl == "https://api.inngest.com/fn/register"
DevServerRegisterUrl == "http://127.0.0.1:8288/fn/register"
DevServerUrl == "http://127.0.0.1:8288/"
RequestUrl == "https://app.example/api/inngest"
Landing == "<html>landing</html>"

\* A boolean | undefined of the code.
Tri == {"undefined", "true", "false"}

\* env[envKeys.LandingPage]: unset, or one of the two flag strings.
Unset == "<unset>"
LandingEnv == {Unset, "1", "0"}

\* helpers/scalar strBoolean on the environment's landing-page variable.
strBoolean(strEnvVar) ==
    CASE strEnvVar = "1" -> "true"
      [] strEnvVar = "0" -> "false"
      [] OTHER           -> "undefined"

\* A resolution in which the environment's flag comes before the option.
shouldShowLandingPageEnvFirst(cfg, strEnvVar) ==
    IF strBoolean(strEnvVar) # "undefined" THEN strBoolean(strEnvVar) = "true"
    ELSE IF cfg # "undefined" THEN cfg = "true"
    ELSE TRUE

\* this.showLandingPage ?? strBoolean(strEnvVar) ?? true
shouldShowLandingPage(cfg, strEnvVar) ==
    IF cfg # "undefined" THEN cfg = "true"
    ELSE IF strBoolean(strEnvVar) # "undefined" THEN strBoolean(strEnvVar) = "true"
    ELSE TRUE

\* this.sdkHeader, the three parts.
sdkHeader(frameworkName) ==
    << "inngest-", "js:v" \o Version, " (" \o frameworkName \o ")" >>

\* this.sdkHeader.join("")
SdkHeaderValue(frameworkName) ==
    sdkHeader(frameworkName)[1] \o sdkHeader(frameworkName)[2]
        \o sdkHeader(frameworkName)[3]

-----------------------------------------------------------------------------
(* Run payloads and their validation in runStep.                           *)

\* {event:{}, steps:{s:1}}, {event:{}}, {event:{}, steps:null}, {steps:{}},
\* {event:{}, steps:"x"}, and a request body that is not JSON at all.
Payloads == {"event+steps", "event", "event+null", "steps", "event+badsteps"}
NotJSON == "not json"

\* A validation that takes a missing or malformed part as empty.
ParsePayloadLenient(data) ==
    IF data \in {"event+steps", "steps"}
    THEN [ok |-> TRUE, steps |-> "object"]
    ELSE [ok |-> TRUE, steps |-> "undefined"]

\* z.object({event: z.object({}).passthrough(),
\*           steps: z.object({}).passthrough().optional().nullable()}).parse(data)
ParsePayload(data) ==
    CASE data = "event+steps" -> [ok |-> TRUE,  steps |-> "object"]
      [] data = "event"       -> [ok |-> TRUE,  steps |-> "undefined"]
      [] data = "event+null"  -> [ok |-> TRUE,  steps |-> "null"]
      [] OTHER                -> [ok |-> FALSE, steps |-> "undefined"]

\* steps || {}
StepsOrEmpty(steps) == IF steps = "object" THEN "given" ELSE "empty"

-----------------------------------------------------------------------------
(* Responses.                                                              *)

JSONType == "application/json"
HTMLType == "text/html; charset=utf-8"

NoDoc == [present |-> FALSE]

NoResp == [kind |-> "none", status |-> 0, body |-> "", contentType |-> "",
           sdk |-> "", doc |-> NoDoc]

\* A response whose 405 and 500 branches forget the shared headers.
RespBare(fw, status, body, ctype) ==
    [kind |-> "response", status |-> status, body |-> body,
     contentType |-> ctype,
     sdk |-> IF status \in {405, 500} THEN "" ELSE SdkHeaderValue(fw),
     doc |-> NoDoc]

\* A response object {status, body, headers}.
Resp(fw, status, body, ctype) ==
    [kind |-> "response", status |-> status, body |-> body,
     contentType |-> ctype, sdk |-> SdkHeaderValue(fw), doc |-> NoDoc]

\* The handler's promise rejects: no response object exists.
Escapes(v) == [NoResp EXCEPT !.kind = "throws", !.body = v]

\* The catch block of handleAction: {status: 500, body: JSON.stringify(err)}.
CatchResp(fw, err) ==
    IF JSONStringify(err).throws
    THEN Escapes(VTypeError)
    ELSE Resp(fw, 500, JSONStringify(err).out, JSONType)

-----------------------------------------------------------------------------
(* The registration body and the introspection document.                   *)

RECURSIVE ConfigsFrom(_, _)
\* this.configs(url): fn.getConfig(url, this.name) of every served function.
ConfigsFrom(i, url) ==
    IF i > NumFns THEN ""
    ELSE "{id:" \o FnId(i) \o ",url:" \o url \o "}" \o ConfigsFrom(i + 1, url)

configs(url) == "[" \o ConfigsFrom(1, url) \o "]"

\* this.reqUrl(url): no servePath or serveHost is configured, and the
\* introspection marker is not part of RequestUrl.
reqUrl(url) == url

\* this.registerBody(url): the hash is taken over the body before the hash
\* field is set.
registerBody(fw, url) ==
    [url |-> url, deployType |-> "ping", framework |-> fw, appName |-> AppName,
     functions |-> configs(url), sdk |-> sdkHeader(fw)[2], v |-> "0.1",
     hash |-> Sha256Hex(url \o "|ping|" \o fw \o "|" \o AppName \o "|"
                        \o configs(url) \o "|" \o sdkHeader(fw)[2] \o "|0.1")]

\* An introspection document whose flag tests the derived credential, which
\* is a string (never undefined) also when no key is set.
IntrospectionOfCredential(fw, url, key) ==
    [present |-> TRUE, body |-> registerBody(fw, url),
     devServerURL |-> DevServerUrl,
     hasSigningKey |-> (hashedSigningKey(key) # VUndefined)]

\* {...this.registerBody(url), devServerURL, hasSigningKey: Boolean(this.signingKey)}
Introspection(fw, url, key) ==
    [present |-> TRUE, body |-> registerBody(fw, url),
     devServerURL |-> DevServerUrl, hasSigningKey |-> (Raw(key) # "")]

\* JSON.stringify(introspection)
DocJSON(doc) ==
    "{\"url\":\"" \o doc.body.url \o "\",\"hash\":\"" \o doc.body.hash
      \o "\",\"devServerURL\":\"" \o doc.devServerURL \o "\",\"hasSigningKey\":"
      \o (IF doc.hasSigningKey THEN "true" ELSE "false") \o "}"

-----------------------------------------------------------------------------
(* Signing key adoption.                                                   *)

\* An adoption that takes every key a request offers.
upsertAlways(cur, envKey) == IF Raw(envKey) # "" THEN envKey ELSE cur

\* An adoption with its test the wrong way round: it never adopts.
upsertNever(cur, envKey) ==
    IF Raw(cur) # "" /\ Raw(envKey) # "" THEN envKey ELSE cur

\* upsertSigningKeyFromEnv: the value of this.signingKey afterwards.
upsertSigningKeyFromEnv(cur, envKey) ==
    IF Raw(cur) = "" /\ Raw(envKey) # "" THEN envKey ELSE cur

-----------------------------------------------------------------------------
(* runStep.                                                                *)

\* A StepRunResponse; `rejects` when runStep's own catch block throws.
StepRes(status, body, error) ==
    [rejects |-> FALSE, status |-> status, body |-> body, error |-> error]

\* The part of runStep before `await fn.runFn(...)`: "call" when the engine
\* is invoked, else the fault runStep's catch block reports.
runStepBefore(functionId, data) ==
    IF Lookup(functionId) = "undefined"
    THEN [call |-> FALSE, steps |-> "",
          res |-> StepRes(500, VUndefined,
                          StackOf("Could not find function with ID " \o functionId))]
    ELSE IF ~ParsePayload(data).ok
    THEN [call |-> FALSE, steps |-> "",
          res |-> StepRes(500, VUndefined, StackOf(VZodError))]
    ELSE IF Lookup(functionId) = "inherited"
    THEN [call |-> FALSE, steps |-> "",
          res |-> StepRes(500, VUndefined, StackOf(VTypeError))]
    ELSE [call |-> TRUE, steps |-> StepsOrEmpty(ParsePayload(data).steps),
          res |-> StepRes(0, VUndefined, "")]

\* What the engine did: it returned [isOp, body], or it threw `err`.
EngineOutcomes ==
    [threw : {FALSE}, isOp : BOOLEAN, val : EngineBodies]
      \cup [threw : {TRUE}, isOp : {FALSE}, val : EngineThrown]

\* runStep with the two statuses the wrong way round.
runStepAfterSwapped(o) ==
    IF ~o.threw
    THEN StepRes(IF o.isOp THEN 200 ELSE 206, o.val, "")
    ELSE StepRes(500, VUndefined, StackOf(o.val))

\* The part of runStep after the engine settled.
runStepAfter(o) ==
    IF ~o.threw
    THEN StepRes(IF o.isOp THEN 206 ELSE 200, o.val, "")
    ELSE IF IsError(o.val)
    THEN StepRes(500, VUndefined, StackOf(o.val))
    ELSE IF JSONStringify(o.val).throws
    THEN [StepRes(500, VUndefined, "") EXCEPT !.rejects = TRUE]
    ELSE StepRes(500, VUndefined, "Unknown error: " \o JSONStringify(o.val).out)

\* handleAction's run branch once runStep settled.
RunResponse(fw, stepRes) ==
    IF stepRes.rejects THEN CatchResp(fw, VTypeError)
    ELSE IF stepRes.status = 500 THEN Resp(fw, 500, stepRes.error, JSONType)
    ELSE IF JSONStringify(stepRes.body).throws THEN CatchResp(fw, VTypeError)
    ELSE Resp(fw, stepRes.status, JSONStringify(stepRes.body).out, JSONType)

-----------------------------------------------------------------------------
(* register.                                                               *)

\* What `await res.json()` may give: a body that is not JSON, {}, a reply
\* that was skipped, an error reply, and two replies of another shape.
RegReplies == {NotJSON, "{}", "{status:200,skipped:true}",
               "{status:400,error:'bad'}", "null", "{status:'200'}"}

\* registerResSchema.parse(data), with data = {} when res.json() threw.
registerResSchema(reply) ==
    CASE reply \in {NotJSON, "{}"} ->
           [throws |-> FALSE, status |-> 200,
            error |-> "Successfully registered", skipped |-> FALSE]
      [] reply = "{status:200,skipped:true}" ->
           [throws |-> FALSE, status |-> 200,
            error |-> "Successfully registered", skipped |-> TRUE]
      [] reply = "{status:400,error:'bad'}" ->
           [throws |-> FALSE, status |-> 400, error |-> "bad", skipped |-> FALSE]
      [] OTHER ->
           [throws |-> TRUE, status |-> 0, error |-> "", skipped |-> FALSE]

\* How the registration POST settled: the fetch rejected with `val`, or it
\* resolved with a response whose body is `val`.
PostOutcomes ==
    [rejected : {TRUE}, val : Thrown] \cup [rejected : {FALSE}, val : RegReplies]

\* A register that lets the transport's failure through to its caller.
registerResultRethrows(o) ==
    IF o.rejected
    THEN [throws |-> TRUE, status |-> 0, message |-> ""]
    ELSE [throws |-> registerResSchema(o.val).throws,
          status |-> registerResSchema(o.val).status,
          message |-> registerResSchema(o.val).error]

\* What register returns ({status, message}), or that it throws.
registerResult(o) ==
    IF o.rejected
    THEN [throws |-> FALSE, status |-> 500,
          message |-> "Failed to register"
                        \o (IF IsError(o.val) THEN "; boom" ELSE "")]
    ELSE [throws |-> registerResSchema(o.val).throws,
          status |-> registerResSchema(o.val).status,
          message |-> registerResSchema(o.val).error]

\* handleAction's register branch once register settled.
RegisterResponse(fw, reg) ==
    IF reg.throws THEN CatchResp(fw, VZodError)
    ELSE Resp(fw, reg.status, "{\"message\":\"" \o reg.message \o "\"}", JSONType)

\* The view branch after the key was adopted; `ctype` is the Content-Type the
\* handler gives the introspection document.
ViewResponse(fw, prod, cfg, a, key, ctype) ==
    IF prod \/ ~shouldShowLandingPage(cfg, a.landing)
    THEN Resp(fw, 405, "", "")
    ELSE IF a.isIntrospection
    THEN [Resp(fw, 200, DocJSON(Introspection(fw, reqUrl(a.url), key)), ctype)
            EXCEPT !.doc = Introspection(fw, reqUrl(a.url), key)]
    ELSE Resp(fw, 200, Landing, HTMLType)

-----------------------------------------------------------------------------
(* The constructor's collection of the served functions.                   *)

\* The ids fn.id(this.name) may give: three ids scoped by the app name, and
\* an explicit id that names a property every object inherits.
DeclaredIds == { FnId(i) : i \in 1..NumDeclared } \cup {"toString"}

\* The function lists a handler may be constructed from, as their ids.
FunctionLists ==
    UNION { [1..n -> DeclaredIds] : n \in 0..MaxFunctions }

\* acc[id] of the reduce's callback is truthy: acc is a plain object, so the
\* id is one of its own keys or a property of Object.prototype.
AccHas(acc, id) == id \in acc \/ Lookup(id) = "inherited"

RECURSIVE reduceFns(_, _, _)
\* functions.reduce(callback, {}) from position i on: the own keys of the
\* result, or that the callback threw the duplicate-id Error.
reduceFns(functions, i, acc) ==
    IF i > Len(functions) THEN [throws |-> FALSE, fns |-> acc]
    ELSE IF AccHas(acc, functions[i]) THEN [throws |-> TRUE, fns |-> {}]
    ELSE reduceFns(functions, i + 1, acc \cup {functions[i]})

\* this.fns[functionId] on a constructed handler, as runStep reads it.
fnsLookup(own, functionId) ==
    IF functionId \in own THEN "own"
    ELSE IF Lookup(functionId) = "inherited" THEN "inherited"
    ELSE "undefined"

\* The served functions of the request-handling specifications, as a list.
ServedList == [i \in 1..NumFns |-> FnId(i)]

RECURSIVE ConfigsOf(_, _, _)
\* this.configs(url) of a handler constructed from `functions`:
\* Object.values(this.fns) keeps the order in which the ids were inserted.
ConfigsOf(functions, i, url) ==
    IF i > Len(functions) THEN ""
    ELSE "{id:" \o functions[i] \o ",url:" \o url \o "}"
           \o ConfigsOf(functions, i + 1, url)

\* JSON.stringify(body) of registerBody before the hash field is set.
BodyJSON(body) ==
    body.url \o "|" \o body.deployType \o "|" \o body.framework \o "|"
      \o body.appName \o "|" \o body.functions \o "|" \o body.sdk \o "|" \o body.v

\* The body of registerBody before the hash field is set.
UnhashedBody(fw, url, functions) ==
    [url |-> url, deployType |-> "ping", framework |-> fw, appName |-> AppName,
     functions |-> "[" \o ConfigsOf(functions, 1, url) \o "]",
     sdk |-> sdkHeader(fw)[2], v |-> "0.1"]

\* A registerBody whose hash covers the endpoint only.
registerBodyOfUrlHash(fw, url, functions) ==
    [url |-> url, deployType |-> "ping", framework |-> fw, appName |-> AppName,
     functions |-> "[" \o ConfigsOf(functions, 1, url) \o "]",
     sdk |-> sdkHeader(fw)[2], v |-> "0.1",
     hash |-> Sha256Hex(url \o "|ping|" \o fw \o "|" \o AppName)]

\* this.registerBody(url) of a handler constructed from `functions`.
registerBodyOf(fw, url, functions) ==
    [url |-> url, deployType |-> "ping", framework |-> fw, appName |-> AppName,
     functions |-> "[" \o ConfigsOf(functions, 1, url) \o "]",
     sdk |-> sdkHeader(fw)[2], v |-> "0.1",
     hash |-> Sha256Hex(BodyJSON(UnhashedBody(fw, url, functions)))]

\* The URLs a body is built for.
BodyUrls == {RequestUrl, RequestUrl \o "/v2"}

NoBody == [url |-> "", deployType |-> "", framework |-> "", appName |-> "",
           functions |-> "", sdk |-> "", v |-> "", hash |-> ""]

-----------------------------------------------------------------------------
(* helpers/errors: serializeError, isSerializedError, deserializeError.    *)

Absent == "<absent>"

\* A JavaScript value handed to the helpers.  kind: an Error instance (its
\* name is inherited, message and stack are its own), a plain object (the
\* fields it has are its own) or null.  marker: the own property
\* __serialized is missing, is true, is another value, or is inherited only.
\* hostile: reading the object's properties may throw.  ref tells the object
\* the caller passed from one a helper made.
Value(ref, kind, marker, name, message, stack, hostile) ==
    [ref |-> ref, kind |-> kind, marker |-> marker, name |-> name,
     message |-> message, stack |-> stack, hostile |-> hostile]

NoValue == Value("", "none", "none", Absent, Absent, Absent, FALSE)

Subjects ==
    { Value("subject", "Error", "none", n, m, "Error: at f", FALSE) :
        n \in {"Error", "TypeError"}, m \in {"boom", ""} }
      \cup { Value("subject", "object", k, n, m, st, h) :
               k \in {"none", "true", "other", "inherited"},
               n \in {Absent, "Error", "TypeError"},
               m \in {Absent, "boom"},
               st \in {Absent, "Error: at f"},
               h \in BOOLEAN }
      \cup { Value("subject", "null", "none", Absent, Absent, Absent, FALSE) }

\* Object.prototype.hasOwnProperty.call(value, field); it throws on null.
Own(value, field) ==
    CASE value.kind = "object" -> value[field] # Absent
      [] value.kind = "Error"  -> field \in {"message", "stack"}
      [] OTHER                 -> FALSE

\* A test that guesses from the shape: name, message and stack are there.
isSerializedErrorByShape(value) ==
    /\ value.kind = "object"
    /\ Own(value, "name") /\ Own(value, "message") /\ Own(value, "stack")

\* isSerializedError: the own property __serialized is there and is true;
\* false when the test itself throws.
isSerializedError(value) ==
    /\ value.kind # "null"
    /\ value.marker = "true"

\* serializeError of serialize-error-cjs: a new plain object with the name,
\* message and stack of an Error; another value keeps the fields it has.
cjsSerializeError(subject) ==
    CASE subject.kind = "Error" ->
           Value("made", "object", "none", subject.name, subject.message,
                 subject.stack, FALSE)
      [] subject.kind = "object" ->
           Value("made", "object",
                 IF subject.marker = "inherited" THEN "none" ELSE subject.marker,
                 subject.name, subject.message, subject.stack, FALSE)
      [] OTHER ->
           Value("made", "object", "none", Absent, Absent, Absent, FALSE)

\* serializeError(subject); libThrows tells whether the library threw while
\* it read a hostile subject.
serializeError(subject, libThrows) ==
    IF isSerializedError(subject) THEN [threw |-> FALSE, v |-> subject]
    ELSE IF libThrows THEN [threw |-> TRUE, v |-> NoValue]
    ELSE [threw |-> FALSE,
          v |-> [cjsSerializeError(subject) EXCEPT !.marker = "true"]]

\* new Error("Unknown error; could not reserialize") with its stack cleared.
Placeholder ==
    Value("made", "Error", "none", "Error",
          "Unknown error; could not reserialize", Absent, FALSE)

\* deserializeError of serialize-error-cjs: an Error with the candidate's
\* name, message and stack.
cjsDeserializeError(subject) ==
    Value("made", "Error", "none", subject.name, subject.message,
          subject.stack, FALSE)

\* A deserializeError without the test of the required fields and without
\* the catch block.
deserializeErrorUnchecked(subject, libThrows) ==
    IF subject.kind = "null" \/ libThrows THEN [threw |-> TRUE, v |-> NoValue]
    ELSE [threw |-> FALSE,
          v |-> Value("made", "Error", "none",
                      IF subject.name = Absent THEN "Error" ELSE subject.name,
                      IF subject.message = Absent THEN "" ELSE subject.message,
                      subject.stack, FALSE)]

\* deserializeError(subject); libThrows tells whether the library threw.
deserializeError(subject, libThrows) ==
    IF subject.kind = "null" THEN [threw |-> FALSE, v |-> Placeholder]
    ELSE IF ~(Own(subject, "name") /\ Own(subject, "message"))
    THEN [threw |-> FALSE, v |-> Placeholder]
    ELSE IF libThrows THEN [threw |-> FALSE, v |-> Placeholder]
    ELSE [threw |-> FALSE, v |-> cjsDeserializeError(subject)]

-----------------------------------------------------------------------------
(* State.                                                                  *)

VARIABLES
    frameworkName,    \* this.frameworkName, which also tells the handler class
    showLandingPage,  \* this.showLandingPage, the landingPage option
    signingKey,       \* this.signingKey
    _isProd,          \* this._isProd
    req,              \* the requests being handled, one record per flow
    ctor,             \* the constructor: the function list and this.fns
    errs              \* a use of the helpers of helpers/errors

vars == << frameworkName, showLandingPage, signingKey, _isProd, req, ctor, errs >>

Generic == "express"
Fresh == "deno/fresh"

EnvKeys == Keys \cup {NoKey}

\* The actions a framework adapter may hand over (HandlerAction); `at` and
\* `err` describe an adapter whose callback `at` throws `err`.
RunActions ==
    [variant : {"run"}, env : EnvKeys, isProduction : BOOLEAN,
     url : {RequestUrl}, fnId : ReqFnIds \ {""}, data : Payloads,
     isIntrospection : {FALSE}, landing : {Unset}, at : {""}, err : {""}]

ViewActions ==
    [variant : {"view"}, env : EnvKeys, isProduction : BOOLEAN,
     url : {RequestUrl}, fnId : {""}, data : {""},
     isIntrospection : BOOLEAN, landing : LandingEnv, at : {""}, err : {""}]

OtherActions ==
    [variant : {"register", "bad-method"}, env : EnvKeys,
     isProduction : BOOLEAN, url : {RequestUrl}, fnId : {""}, data : {""},
     isIntrospection : {FALSE}, landing : {Unset}, at : {""}, err : {""}]

\* The `error` variant carries its error data; the Handler type gives it no
\* callback, so run, view and register all return undefined for it.
ErrorActions ==
    [variant : {"error"}, env : EnvKeys,
     isProduction : BOOLEAN, url : {RequestUrl}, fnId : {""}, data : {VErrData},
     isIntrospection : {FALSE}, landing : {Unset}, at : {""}, err : {""}]

ThrowingActions ==
    [variant : {"throws"}, env : {NoKey}, isProduction : {FALSE},
     url : {RequestUrl}, fnId : {""}, data : {""}, isIntrospection : {FALSE},
     landing : {Unset}, at : {"run", "view", "register"}, err : Thrown]

HandlerAction ==
    RunActions \cup ViewActions \cup OtherActions \cup ErrorActions
      \cup ThrowingActions

\* The requests the Fresh handler may get: POST, GET, PUT and another method,
\* named by the action they stand for; isProduction is what the environment
\* variables VERCEL_ENV, CONTEXT and ENVIRONMENT say.
FreshRequests ==
    [variant : {"run"}, env : EnvKeys, isProduction : BOOLEAN,
     url : {RequestUrl}, fnId : ReqFnIds, data : Payloads \cup {NotJSON},
     isIntrospection : {FALSE}, landing : {Unset}, at : {""}, err : {""}]
      \cup ViewActions
      \cup [variant : {"register", "bad-method"}, env : EnvKeys,
            isProduction : BOOLEAN, url : {RequestUrl}, fnId : {""}, data : {""},
            isIntrospection : {FALSE}, landing : {Unset}, at : {""}, err : {""}]

NoAction ==
    [variant |-> "", env |-> NoKey, isProduction |-> FALSE, url |-> "",
     fnId |-> "", data |-> "", isIntrospection |-> FALSE, landing |-> Unset,
     at |-> "", err |-> ""]

NoEngine == [called |-> FALSE, steps |-> "", settled |-> FALSE,
             threw |-> FALSE, isOp |-> FALSE, val |-> ""]

\* The registration POST of a flow: how often this.fetch was called for it,
\* where the last call went, and how it settled.
NoPost == [sent |-> FALSE, n |-> 0, url |-> "", auth |-> "",
           settled |-> FALSE, rejected |-> FALSE, val |-> ""]

\* A flow that handles nothing.  keySeen and prodRead record what the flow
\* read from this.signingKey when it adopted the key and from this._isProd.
Idle ==
    [pc |-> "idle", a |-> NoAction, keySeen |-> "unread", engine |-> NoEngine,
     prodRead |-> "unread", probed |-> FALSE, hasDevServer |-> FALSE,
     post |-> NoPost, resp |-> NoResp]

\* What the environment of the handler may do: the actions and requests that
\* arrive, and how the engine and the registration POST settle.
AllInputs ==
    [actions |-> HandlerAction, requests |-> FreshRequests,
     engine |-> EngineOutcomes, post |-> PostOutcomes]

\* The inputs of overlapping flows: every variant with every key and
\* production flag, which is all that touches the state the flows share.
SharedInputs ==
    [actions |-> { a \in HandlerAction :
                     /\ a.fnId \in {"", FnId(1)}
                     /\ a.data \in {"", "event+steps", VErrData}
                     /\ a.landing = Unset
                     /\ a.err \in {"", VError}
                     /\ a.variant \in {"bad-method", "error"}
                          => (a.env = NoKey /\ ~a.isProduction) },
     requests |-> { a \in FreshRequests :
                     /\ a.fnId \in {"", FnId(1)}
                     /\ a.data \in {"", "event+steps"}
                     /\ a.landing = Unset
                     /\ a.variant = "bad-method"
                          => (a.env = NoKey /\ ~a.isProduction) },
     engine |-> { o \in EngineOutcomes : o.val \in {VOk, VError} /\ ~o.isOp },
     post |-> { o \in PostOutcomes : o.val \in {VError, "{}"} }]

\* The constructor's state: the list it was given, whether it returned or
\* threw, the own keys of this.fns, and the last lookup in this.fns.
Ctor(functions, state, own) ==
    [functions |-> functions, state |-> state, fns |-> own,
     asked |-> "", found |-> "none", posted |-> NoBody, shown |-> NoBody]

\* The helpers' state: the value handed in, serializeError of it, and
\* serializeError of that, and what deserializeError returned.
NoResult == [threw |-> FALSE, v |-> NoValue]
NoErrs ==
    [pc |-> "unused", subject |-> NoValue, out1 |-> NoResult, out2 |-> NoResult,
     candidate |-> NoValue, cjsThrew |-> FALSE, des |-> NoResult]

Init ==
    /\ frameworkName \in {Generic, Fresh}
    /\ showLandingPage \in Tri
    /\ signingKey \in EnvKeys
    /\ _isProd = FALSE
    /\ req = [r \in Reqs |-> Idle]
    /\ ctor = Ctor(ServedList, "constructed", reduceFns(ServedList, 1, {}).fns)
    /\ errs = NoErrs

-----------------------------------------------------------------------------
(* InngestCommHandler.createHandler / handleAction.                        *)

Same == UNCHANGED << frameworkName, showLandingPage, ctor, errs >>

\* The flow r returns (or throws) `resp`; nothing more of it runs.
Finished(r, resp) == [req[r] EXCEPT !.pc = "done", !.resp = resp]

\* `await this.handler(...args)`: the adapter classified a request.
Receive(r, I) ==
    /\ frameworkName = Generic
    /\ ctor.state = "constructed"
    /\ req[r].pc = "idle"
    /\ \E a \in I.actions :
          req' = [req EXCEPT ![r] = [Idle EXCEPT !.pc = "run", !.a = a]]
    /\ UNCHANGED << signingKey, _isProd >>
    /\ Same

\* `await actions.run()` and, for a run action, everything up to the call
\* of the engine in runStep.
CallRun(r) ==
    /\ req[r].pc = "run"
    /\ \/ /\ req[r].a.at = "run"
          /\ req' = [req EXCEPT ![r] =
                       Finished(r, CatchResp(frameworkName, req[r].a.err))]
          /\ UNCHANGED signingKey
       \/ /\ req[r].a.variant = "run"
          /\ signingKey' = upsertSigningKeyFromEnv(signingKey, req[r].a.env)
          /\ LET b == runStepBefore(req[r].a.fnId, req[r].a.data) IN
               req' = [req EXCEPT ![r] =
                         [(IF b.call
                           THEN [req[r] EXCEPT !.pc = "engine",
                                    !.engine = [NoEngine EXCEPT !.called = TRUE,
                                                                !.steps = b.steps]]
                           ELSE Finished(r, RunResponse(frameworkName, b.res)))
                            EXCEPT !.keySeen = Raw(signingKey)]]
       \/ /\ req[r].a.variant # "run"
          /\ req[r].a.at # "run"
          /\ req' = [req EXCEPT ![r].pc = "view"]
          /\ UNCHANGED signingKey
    /\ UNCHANGED _isProd
    /\ Same

\* `await actions.view()` and the whole view branch.
CallView(r) ==
    /\ req[r].pc = "view"
    /\ \/ /\ req[r].a.at = "view"
          /\ req' = [req EXCEPT ![r] =
                       Finished(r, CatchResp(frameworkName, req[r].a.err))]
          /\ UNCHANGED signingKey
       \/ /\ req[r].a.variant = "view"
          /\ signingKey' = upsertSigningKeyFromEnv(signingKey, req[r].a.env)
          /\ req' = [req EXCEPT ![r] =
                       [Finished(r, ViewResponse(frameworkName, _isProd, showLandingPage,
                                                 req[r].a, signingKey', JSONType))
                          EXCEPT !.prodRead = IF _isProd THEN "true" ELSE "false",
                                 !.keySeen = Raw(signingKey)]]
       \/ /\ req[r].a.variant # "view"
          /\ req[r].a.at # "view"
          /\ req' = [req EXCEPT ![r].pc = "register"]
          /\ UNCHANGED signingKey
    /\ UNCHANGED _isProd
    /\ Same

\* A register whose credential is the one of the key the instance had when
\* the request arrived, before the key of the request was adopted.
registerStartStaleKey(r, prod, key) ==
    IF prod
    THEN [req[r] EXCEPT !.pc = "post", !.prodRead = "true",
             !.post = [NoPost EXCEPT !.sent = TRUE, !.n = req[r].post.n + 1,
                          !.url = InngestRegisterUrl,
                          !.auth = "Bearer " \o hashedSigningKey(signingKey)]]
    ELSE [req[r] EXCEPT !.pc = "probe", !.prodRead = "false"]

\* The start of register: the body is built and this.isProd is read; in
\* production the POST is sent at once, else the dev server is probed first.
registerStart(r, prod, key) ==
    IF prod
    THEN [req[r] EXCEPT !.pc = "post", !.prodRead = "true",
             !.post = [NoPost EXCEPT !.sent = TRUE, !.n = req[r].post.n + 1,
                          !.url = InngestRegisterUrl,
                          !.auth = "Bearer " \o hashedSigningKey(key)]]
    ELSE [req[r] EXCEPT !.pc = "probe", !.prodRead = "false"]

\* A handleAction without the test `if (registerRes)`: whatever reaches the
\* register step is registered.
CallRegisterUntested(r) ==
    /\ req[r].pc = "register"
    /\ \/ /\ req[r].a.at = "register"
          /\ req' = [req EXCEPT ![r] =
                       Finished(r, CatchResp(frameworkName, req[r].a.err))]
          /\ UNCHANGED signingKey
       \/ /\ req[r].a.variant \in {"register", "bad-method", "error"}
          /\ signingKey' = upsertSigningKeyFromEnv(signingKey, req[r].a.env)
          /\ req' = [req EXCEPT ![r] =
                       [registerStart(r, _isProd, signingKey')
                          EXCEPT !.keySeen = Raw(signingKey)]]
    /\ UNCHANGED _isProd
    /\ Same

\* `await actions.register()` and the register branch up to its first await;
\* when no callback applied, the 405 at the end of handleAction.
CallRegister(r) ==
    /\ req[r].pc = "register"
    /\ \/ /\ req[r].a.at = "register"
          /\ req' = [req EXCEPT ![r] =
                       Finished(r, CatchResp(frameworkName, req[r].a.err))]
          /\ UNCHANGED signingKey
       \/ /\ req[r].a.variant = "register"
          /\ signingKey' = upsertSigningKeyFromEnv(signingKey, req[r].a.env)
          /\ req' = [req EXCEPT ![r] =
                       [registerStart(r, _isProd, signingKey')
                          EXCEPT !.keySeen = Raw(signingKey)]]
       \/ /\ req[r].a.variant \in {"bad-method", "error"}
          /\ req' = [req EXCEPT ![r] = Finished(r, Resp(frameworkName, 405, "", ""))]
          /\ UNCHANGED signingKey
    /\ UNCHANGED _isProd
    /\ Same

-----------------------------------------------------------------------------
(* DenoFreshCommHandler.createHandler.                                     *)

\* The Fresh handler's response to a settled runStep: nothing is caught.
FreshRunResponse(fw, stepRes) ==
    IF stepRes.rejects THEN Escapes(VTypeError)
    ELSE IF stepRes.status = 500
    THEN Resp(fw, 500, "\"" \o stepRes.error \o "\"", "")
    ELSE IF JSONStringify(stepRes.body).throws THEN Escapes(VTypeError)
    ELSE Resp(fw, stepRes.status, JSONStringify(stepRes.body).out, "")

\* The Fresh handler's response to a settled register.
FreshRegisterResponse(fw, reg) ==
    IF reg.throws THEN Escapes(VZodError)
    ELSE Resp(fw, reg.status, "{\"message\":\"" \o reg.message \o "\"}", "")

\* A request arrives at the handler createHandler returned.
FreshReceive(r, I) ==
    /\ frameworkName = Fresh
    /\ ctor.state = "constructed"
    /\ req[r].pc = "idle"
    /\ \E a \in I.requests :
          req' = [req EXCEPT ![r] = [Idle EXCEPT !.pc = "fresh", !.a = a]]
    /\ UNCHANGED << signingKey, _isProd >>
    /\ Same

\* The handler up to its first await: the URL, the key, this._isProd and
\* the switch on the method.
FreshHandle(r) ==
    /\ req[r].pc = "fresh"
    /\ \/ \* this.reqUrl(...) throws
          /\ req' = [req EXCEPT ![r] =
                       Finished(r, Resp(frameworkName, 500,
                                        JSONStringify(VTypeError).out, ""))]
          /\ UNCHANGED << signingKey, _isProd >>
       \/ /\ signingKey' = upsertSigningKeyFromEnv(signingKey, req[r].a.env)
          /\ _isProd' = req[r].a.isProduction
          /\ \/ /\ req[r].a.variant = "view"
                /\ req' = [req EXCEPT ![r] =
                             [Finished(r, ViewResponse(frameworkName, _isProd',
                                                       showLandingPage, req[r].a,
                                                       signingKey', ""))
                                EXCEPT !.prodRead = IF _isProd' THEN "true" ELSE "false",
                                       !.keySeen = Raw(signingKey)]]
             \/ /\ req[r].a.variant = "register"
                /\ req' = [req EXCEPT ![r] =
                             [registerStart(r, _isProd', signingKey')
                                EXCEPT !.keySeen = Raw(signingKey)]]
             \/ /\ req[r].a.variant = "run"
                /\ \E stepId \in {"step", ""} :
                      req' = [req EXCEPT ![r] =
                                [(IF req[r].a.fnId = "" \/ stepId = ""
                                  THEN Finished(r, Escapes(VZodError))
                                  ELSE [req[r] EXCEPT !.pc = "body"])
                                   EXCEPT !.keySeen = Raw(signingKey)]]
             \/ /\ req[r].a.variant = "bad-method"
                /\ req' = [req EXCEPT ![r] =
                             [Finished(r, Resp(frameworkName, 405, "", ""))
                                EXCEPT !.keySeen = Raw(signingKey)]]
    /\ Same

\* `await req.json()` and runStep up to the call of the engine.
FreshBody(r) ==
    /\ req[r].pc = "body"
    /\ LET b == runStepBefore(req[r].a.fnId, req[r].a.data) IN
         req' = [req EXCEPT ![r] =
                   IF req[r].a.data = NotJSON
                   THEN Finished(r, Escapes("SyntaxError"))
                   ELSE IF b.call
                   THEN [req[r] EXCEPT !.pc = "engine",
                            !.engine = [NoEngine EXCEPT !.called = TRUE,
                                                        !.steps = b.steps]]
                   ELSE Finished(r, FreshRunResponse(frameworkName, b.res))]
    /\ UNCHANGED << signingKey, _isProd >>
    /\ Same

-----------------------------------------------------------------------------
(* Steps both handlers share.                                              *)

\* fn.runFn settles; runStep maps the outcome and the handler answers.
EngineReturn(r, I) ==
    /\ req[r].pc = "engine"
    /\ \E o \in I.engine :
          req' = [req EXCEPT ![r] =
                    [Finished(r, IF frameworkName = Fresh
                                 THEN FreshRunResponse(frameworkName, runStepAfter(o))
                                 ELSE RunResponse(frameworkName, runStepAfter(o)))
                       EXCEPT !.engine = [req[r].engine EXCEPT !.settled = TRUE,
                                             !.threw = o.threw, !.isOp = o.isOp,
                                             !.val = o.val]]]
    /\ UNCHANGED << signingKey, _isProd >>
    /\ Same

\* devServerAvailable settles and the registration POST is sent.
ProbeReturn(r) ==
    /\ req[r].pc = "probe"
    /\ \E hasDevServer \in BOOLEAN :
          req' = [req EXCEPT ![r] =
                    [req[r] EXCEPT !.pc = "post", !.probed = TRUE,
                        !.hasDevServer = hasDevServer,
                        !.post = [NoPost EXCEPT !.sent = TRUE,
                                     !.n = req[r].post.n + 1,
                                     !.url = IF hasDevServer THEN DevServerRegisterUrl
                                             ELSE InngestRegisterUrl,
                                     !.auth = "Bearer " \o hashedSigningKey(signingKey)]]]
    /\ UNCHANGED << signingKey, _isProd >>
    /\ Same

\* The registration POST settles; register returns and the handler answers.
PostReturn(r, I) ==
    /\ req[r].pc = "post"
    /\ \E o \in I.post :
          req' = [req EXCEPT ![r] =
                    [Finished(r, IF frameworkName = Fresh
                                 THEN FreshRegisterResponse(frameworkName, registerResult(o))
                                 ELSE RegisterResponse(frameworkName, registerResult(o)))
                       EXCEPT !.post = [req[r].post EXCEPT !.settled = TRUE,
                                           !.rejected = o.rejected, !.val = o.val]]]
    /\ UNCHANGED << signingKey, _isProd >>
    /\ Same

\* The response is handed back (transformRes) and the flow ends.
Deliver(r) ==
    /\ req[r].pc = "done"
    /\ req' = [req EXCEPT ![r] = Idle]
    /\ UNCHANGED << signingKey, _isProd >>
    /\ Same

\* One step of the flow r, its inputs drawn from I.
Step(r, I) ==
    \/ Receive(r, I)
    \/ CallRun(r)
    \/ CallView(r)
    \/ CallRegister(r)
    \/ FreshReceive(r, I)
    \/ FreshHandle(r)
    \/ FreshBody(r)
    \/ EngineReturn(r, I)
    \/ ProbeReturn(r)
    \/ PostReturn(r, I)
    \/ Deliver(r)

\* Requests handled one after another, with every input.
Next == Step("r1", AllInputs)

Spec == Init /\ [][Next]_vars

\* Overlapping requests.
NextOverlap == \E r \in Reqs : Step(r, SharedInputs)

SpecOverlap == Init /\ [][NextOverlap]_vars

\* What the handler's own continuations, the engine and the dev-server probe
\* are sure to do: each runs once it can.  The registration POST gets no such
\* condition: this.fetch is called without a timeout or an abort signal, so
\* nothing in the code makes it settle when the endpoint never answers.
Fairness ==
    /\ WF_vars(CallRun("r1"))
    /\ WF_vars(CallView("r1"))
    /\ WF_vars(CallRegister("r1"))
    /\ WF_vars(FreshHandle("r1"))
    /\ WF_vars(FreshBody("r1"))
    /\ WF_vars(EngineReturn("r1", AllInputs))
    /\ WF_vars(ProbeReturn("r1"))
    /\ WF_vars(Deliver("r1"))

SpecLive == Init /\ [][Next]_vars /\ Fairness

-----------------------------------------------------------------------------
(* Construction of a handler from a function list.                         *)

Handler == UNCHANGED << frameworkName, showLandingPage, signingKey, _isProd, req >>

InitConstruct ==
    /\ frameworkName \in {Generic, Fresh}
    /\ showLandingPage = "undefined"
    /\ signingKey = NoKey
    /\ _isProd = FALSE
    /\ req = [r \in Reqs |-> Idle]
    /\ ctor \in { Ctor(functions, "new", {}) : functions \in FunctionLists }
    /\ errs = NoErrs

\* new InngestCommHandler(...): the reduce over the functions; the
\* constructor returns, or the duplicate-id Error leaves it.
Construct ==
    /\ ctor.state = "new"
    /\ LET res == reduceFns(ctor.functions, 1, {}) IN
         ctor' = [ctor EXCEPT !.state = IF res.throws THEN "failed" ELSE "constructed",
                              !.fns = res.fns]
    /\ UNCHANGED errs
    /\ Handler

\* runStep's `this.fns[functionId]` on the handler that was constructed.
FindFn ==
    /\ ctor.state = "constructed"
    /\ \E functionId \in DeclaredIds :
          ctor' = [ctor EXCEPT !.asked = functionId,
                               !.found = fnsLookup(ctor.fns, functionId)]
    /\ UNCHANGED errs
    /\ Handler

\* register's `this.registerBody(url)`, whose JSON is the POST's body.
BuildRegistration ==
    /\ ctor.state = "constructed"
    /\ \E url \in BodyUrls :
          ctor' = [ctor EXCEPT !.posted =
                      registerBodyOf(frameworkName, reqUrl(url), ctor.functions)]
    /\ UNCHANGED errs
    /\ Handler

\* The view branch's `...this.registerBody(this.reqUrl(viewRes.url))`.
BuildIntrospection ==
    /\ ctor.state = "constructed"
    /\ \E url \in BodyUrls :
          ctor' = [ctor EXCEPT !.shown =
                      registerBodyOf(frameworkName, reqUrl(url), ctor.functions)]
    /\ UNCHANGED errs
    /\ Handler

NextConstruct == Construct \/ FindFn \/ BuildRegistration \/ BuildIntrospection

SpecConstruct == InitConstruct /\ [][NextConstruct]_vars

-----------------------------------------------------------------------------
(* Uses of serializeError and deserializeError.                            *)

InitErrors ==
    /\ frameworkName = Generic
    /\ showLandingPage = "undefined"
    /\ signingKey = NoKey
    /\ _isProd = FALSE
    /\ req = [r \in Reqs |-> Idle]
    /\ ctor = Ctor(ServedList, "constructed", reduceFns(ServedList, 1, {}).fns)
    /\ errs \in { [NoErrs EXCEPT !.pc = "new", !.subject = subject] :
                    subject \in Subjects }

\* Whether the library may throw on a value.
MayThrow(value) == IF value.hostile THEN BOOLEAN ELSE {FALSE}

\* serializeError(subject)
Serialize ==
    /\ errs.pc = "new"
    /\ \E libThrows \in MayThrow(errs.subject) :
          errs' = [errs EXCEPT !.pc = "serialized",
                               !.out1 = serializeError(errs.subject, libThrows)]
    /\ UNCHANGED ctor
    /\ Handler

\* serializeError(serializeError(subject))
SerializeAgain ==
    /\ errs.pc = "serialized"
    /\ ~errs.out1.threw
    /\ \E libThrows \in MayThrow(errs.out1.v) :
          errs' = [errs EXCEPT !.pc = "reserialized",
                               !.out2 = serializeError(errs.out1.v, libThrows)]
    /\ UNCHANGED ctor
    /\ Handler

\* deserializeError of the value itself, or of what serializeError returned.
Deserialize ==
    /\ \/ errs.pc = "new"
       \/ errs.pc = "serialized" /\ ~errs.out1.threw
    /\ LET candidate == IF errs.pc = "new" THEN errs.subject ELSE errs.out1.v IN
         \E libThrows \in MayThrow(candidate) :
            errs' = [errs EXCEPT !.pc = "deserialized",
                                 !.candidate = candidate,
                                 !.cjsThrew = libThrows,
                                 !.des = deserializeError(candidate, libThrows)]
    /\ UNCHANGED ctor
    /\ Handler

NextErrors == Serialize \/ SerializeAgain \/ Deserialize

SpecErrors == InitErrors /\ [][NextErrors]_vars

-----------------------------------------------------------------------------
(* Claims.                                                                 *)

\* The flow r was handled by handleAction and has ended.
Dispatched(r) == frameworkName = Generic /\ req[r].pc = "done"

\* Something failed inside handleAction for the flow r: a callback threw, the
\* step invoker reported a fault, or the engine's body could not be serialized.
InternalFailure(r) ==
    \/ req[r].a.at # ""
    \/ req[r].a.variant = "run" /\ ~req[r].engine.called
    \/ req[r].engine.settled
         /\ (req[r].engine.threw \/ JSONStringify(req[r].engine.val).throws)

\* C1: every action handed to handleAction, also one whose callbacks, step
\* invoker or body construction throw, gets exactly one response and no
\* exception escapes; an internal failure yields status 500 with the SDK
\* header.
C1_AlwaysResponds ==
    \A r \in Reqs :
       Dispatched(r) =>
          /\ req[r].resp.kind = "response"
          /\ req[r].resp.sdk = "inngest-js:v" \o Version \o " (" \o Generic \o ")"
          /\ InternalFailure(r) => req[r].resp.status = 500

\* The run action of flow r named a served function, carried a valid payload
\* and the engine has settled.
RunSettled(r) ==
    /\ Dispatched(r)
    /\ req[r].a.variant = "run"
    /\ req[r].engine.settled

\* The engine returned a body JSON.stringify throws on.
Unserializable(e) == ~e.threw /\ JSONStringify(e.val).throws

\* C2 as stated: for a run action with a known function id and a valid
\* payload the status is 206 exactly when the engine returned the flag true,
\* 200 exactly when it returned false and 500 exactly when it threw; for 200
\* and 206 the body is the JSON serialization of the returned body.
C2_StatusFollowsEngine ==
    \A r \in Reqs :
       RunSettled(r) =>
          LET e == req[r].engine
              res == req[r].resp
          IN  /\ res.kind = "response"
              /\ res.status = 206 <=> (~e.threw /\ e.isOp)
              /\ res.status = 200 <=> (~e.threw /\ ~e.isOp)
              /\ res.status = 500 <=> e.threw
              /\ res.status \in {200, 206} => res.body = JSONStringify(e.val).out

\* C2 as amended: the status is 500 exactly when the engine threw or its
\* returned body cannot be serialized to JSON; otherwise it is 206 exactly
\* when the flag is true and 200 exactly when it is false, and the body is
\* the JSON serialization of the returned body ({ok: true} gives {"ok":true}).
C2_StatusFollowsEngineOrBody ==
    \A r \in Reqs :
       RunSettled(r) =>
          LET e == req[r].engine
              res == req[r].resp
          IN  /\ res.kind = "response"
              /\ res.status \in {200, 206, 500}
              /\ res.status = 500 <=> (e.threw \/ Unserializable(e))
              /\ res.status = 206 <=> (~e.threw /\ e.isOp /\ ~Unserializable(e))
              /\ res.status = 200 <=> (~e.threw /\ ~e.isOp /\ ~Unserializable(e))
              /\ res.status \in {200, 206} => res.body = JSONStringify(e.val).out
              /\ (res.status \in {200, 206} /\ e.val = VOk)
                    => res.body = "{\"ok\":true}"

\* C2, the ordinary case: the engine returned [true, {ok: true}] and the
\* answer is 206.
C2_Witness ==
    \E r \in Reqs :
       /\ RunSettled(r)
       /\ ~req[r].engine.threw
       /\ req[r].engine.isOp
       /\ req[r].engine.val = VOk
       /\ req[r].resp.status = 206

\* C2 witness of the amended case: the engine returned a body that cannot be
\* serialized and the answer is 500.
C2_WitnessUnserializable ==
    \E r \in Reqs :
       /\ RunSettled(r)
       /\ Unserializable(req[r].engine)
       /\ req[r].resp.status = 500

\* The payload of a run action has an `event` object.
HasEvent(data) == data \in {"event+steps", "event", "event+null", "event+badsteps"}

\* The fault C3 is about: the function is not served or the event is missing.
RunFault(a) ==
    a.variant = "run" /\ (a.fnId \notin fns \/ ~HasEvent(a.data))

\* C3: a run action naming a function that is not served, or without an
\* `event` object, gets status 500 (never 200 or 206) and the engine is not
\* invoked; absent or null `steps` with a served function is no fault and
\* the engine is invoked with empty prior step state.
C3_RunFaults ==
    \A r \in Reqs :
       /\ RunFault(req[r].a) => ~req[r].engine.called
       /\ (RunFault(req[r].a) /\ Dispatched(r)) =>
             (req[r].resp.kind = "response" /\ req[r].resp.status = 500)
       /\ (RunFault(req[r].a) /\ req[r].pc = "done"
             /\ req[r].resp.kind = "response") => req[r].resp.status \notin {200, 206}
       /\ ( /\ frameworkName = Generic
            /\ req[r].a.variant = "run"
            /\ req[r].a.fnId \in fns
            /\ req[r].a.data \in {"event", "event+null"}
            /\ req[r].pc \in {"engine", "done"} )
             => (req[r].engine.called /\ req[r].engine.steps = "empty")

\* C3 witness: a run action without `event` was answered, and another with
\* null `steps` reached the engine.
C3_WitnessFault ==
    \E r \in Reqs :
       /\ Dispatched(r)
       /\ req[r].a.variant = "run"
       /\ req[r].a.fnId \in fns
       /\ req[r].a.data = "steps"
       /\ req[r].resp.status = 500

\* C4: once this.signingKey is set, by the constructor's option or by
\* adoption, no step of any run, view or register action changes or clears
\* it.
C4_KeyNeverChanges ==
    [][Raw(signingKey) # "" => signingKey' = signingKey]_vars

\* C4 witness: a request that carried another key went through adoption
\* on an instance that had a key, and the instance still has its own.
C4_Witness ==
    \E r \in Reqs :
       /\ req[r].keySeen \notin {"unread", ""}
       /\ Raw(req[r].a.env) \notin {"", req[r].keySeen}
       /\ Raw(signingKey) = req[r].keySeen

\* Two run actions carrying different keys are both past adoption, and the
\* first of them found no key on the instance.
TwoRunsOffered(r1, r2) ==
    /\ r1 # r2
    /\ req[r1].a.variant = "run" /\ req[r2].a.variant = "run"
    /\ req[r1].keySeen # "unread" /\ req[r2].keySeen # "unread"
    /\ Raw(req[r1].a.env) # "" /\ Raw(req[r2].a.env) # ""
    /\ req[r1].a.env # req[r2].a.env
    /\ (req[r1].keySeen = "" \/ req[r2].keySeen = "")

\* C5: two overlapping run actions with different keys on an instance
\* without a key leave exactly one key, one of the two offered: exactly one
\* of the two adoptions found the key unset, and the key is the one that
\* request offered.
C5_OneKeyRetained ==
    \A r1, r2 \in Reqs :
       TwoRunsOffered(r1, r2) =>
          /\ signingKey \in {req[r1].a.env, req[r2].a.env}
          /\ req[r1].keySeen = "" => 
                (signingKey = req[r1].a.env /\ req[r2].keySeen = Raw(signingKey))
          /\ req[r2].keySeen = "" =>
                (signingKey = req[r2].a.env /\ req[r1].keySeen = Raw(signingKey))

\* C5 witness: both run actions are past adoption while neither has been
\* answered, and the key is the one the second flow offered.
C5_Witness ==
    /\ TwoRunsOffered("r1", "r2")
    /\ req["r1"].pc = "engine" /\ req["r2"].pc = "engine"
    /\ signingKey = req["r2"].a.env

BoolStr(b) == IF b THEN "true" ELSE "false"

\* C6: the production-mode value a request's view gate and dev-server probe
\* decision read is the production flag of that request.
C6_ProdIsPerRequest ==
    \A r \in Reqs :
       req[r].prodRead # "unread" => req[r].prodRead = BoolStr(req[r].a.isProduction)

\* C7: a view action whose production flag is true gets 405 with an empty
\* body and never the introspection document or the landing page.
C7_ProdViewIs405 ==
    \A r \in Reqs :
       ( /\ req[r].pc = "done"
         /\ req[r].a.variant = "view"
         /\ req[r].a.isProduction
         /\ req[r].keySeen # "unread" )
          => /\ req[r].resp.kind = "response"
             /\ req[r].resp.status = 405
             /\ req[r].resp.body = ""
             /\ ~req[r].resp.doc.present

\* The string-valued fields of an introspection document.
DocFields(doc) ==
    {doc.body.url, doc.body.deployType, doc.body.framework, doc.body.appName,
     doc.body.functions, doc.body.sdk, doc.body.v, doc.body.hash, doc.devServerURL}

\* C8: when a view action returns the introspection document, hasSigningKey
\* is the boolean telling whether this.signingKey is set at that moment (a
\* key adopted from the same request counts), and the document has no
\* field holding a signing key.
C8_IntrospectionHidesKey ==
    [][\A r \in Reqs :
         (~req[r].resp.doc.present /\ req'[r].resp.doc.present) =>
            LET doc == req'[r].resp.doc IN
               /\ doc.hasSigningKey \in BOOLEAN
               /\ doc.hasSigningKey = (Raw(signingKey') # "")
               /\ DOMAIN doc = {"present", "body", "devServerURL", "hasSigningKey"}
               /\ DOMAIN doc.body = {"url", "deployType", "framework", "appName",
                                     "functions", "sdk", "v", "hash"}
               /\ \A k \in Keys : Raw(k) \notin DocFields(doc)
               /\ req'[r].resp.status = 200]_vars

\* C8 witness: a view action that brought the key got the document, which
\* says that a key is set.
C8_Witness ==
    \E r \in Reqs :
       /\ req[r].resp.doc.present
       /\ req[r].keySeen = ""
       /\ Raw(req[r].a.env) # ""
       /\ req[r].resp.doc.hasSigningKey = TRUE

\* C9: an action of variant `error` is answered 500 with the JSON of the
\* error data it carries.
C9_ErrorActionIs500 ==
    \A r \in Reqs :
       (Dispatched(r) /\ req[r].a.variant = "error") =>
          /\ req[r].resp.kind = "response"
          /\ req[r].resp.status = 500
          /\ req[r].resp.body = "{\"message\":\"bad request\"}"

\* C10: when the engine throws an OutgoingOpError the run action's response
\* is not an HTTP-level fault: its status is not 500.
C10_OpErrorIsNotFault ==
    \A r \in Reqs :
       ( /\ Dispatched(r)
         /\ req[r].engine.settled
         /\ req[r].engine.threw
         /\ req[r].engine.val = VOpError )
          => (req[r].resp.kind = "response" /\ req[r].resp.status # 500)

\* The flow r handled a register action whose registration POST has settled.
RegisterSettled(r) ==
    /\ req[r].pc = "done"
    /\ req[r].a.variant = "register"
    /\ req[r].post.settled

\* JSON.stringify({message})
MessageJSON(message) == "{\"message\":\"" \o message \o "\"}"

\* The messages that start with "Failed to register": the bare one and the
\* one followed by the detail of the Error the transport threw.
FailedMessages == {"Failed to register", "Failed to register; boom"}

\* C11: when the fetch of the registration POST rejects, register does not
\* throw and returns status 500 with a message that starts with "Failed to
\* register"; the handler answers 500 with a JSON body holding that message.
C11_TransportFailure ==
    \A r \in Reqs :
       (RegisterSettled(r) /\ req[r].post.rejected) =>
          LET reg == registerResult([rejected |-> TRUE, val |-> req[r].post.val])
          IN  /\ ~reg.throws
              /\ reg.status = 500
              /\ reg.message \in FailedMessages
              /\ req[r].resp.kind = "response"
              /\ req[r].resp.status = 500
              /\ req[r].resp.body = MessageJSON(reg.message)

\* C11 witness: the fetch rejected with an Error and handleAction answered
\* 500 with the message and its detail.
C11_Witness ==
    \E r \in Reqs :
       /\ Dispatched(r)
       /\ RegisterSettled(r)
       /\ req[r].post.rejected
       /\ req[r].post.val = VError
       /\ req[r].resp.status = 500
       /\ req[r].resp.body = MessageJSON("Failed to register; boom")

\* What a lenient reading of the endpoint's reply gives: each field that is
\* missing or unusable takes its default.
LenientStatus(reply) == IF reply = "{status:400,error:'bad'}" THEN 400 ELSE 200
LenientMessage(reply) ==
    IF reply = "{status:400,error:'bad'}" THEN "bad" ELSE "Successfully registered"

\* C12: for every response the registration endpoint returns (not JSON, JSON
\* of another shape, fields missing) register does not fail: it returns
\* {status, message} with the defaults 200 and "Successfully registered" for
\* every field that is missing or unusable.
C12_LenientSchema ==
    \A r \in Reqs :
       (RegisterSettled(r) /\ ~req[r].post.rejected) =>
          LET reg == registerResult([rejected |-> FALSE, val |-> req[r].post.val])
          IN  /\ ~reg.throws
              /\ reg.status = LenientStatus(req[r].post.val)
              /\ reg.message = LenientMessage(req[r].post.val)
              /\ req[r].resp.kind = "response"
              /\ req[r].resp.status = reg.status
              /\ req[r].resp.body = MessageJSON(reg.message)

\* C13: outside production mode a register call issues exactly one
\* registration POST; it goes to the dev server's register path exactly when
\* the probe succeeded, and when the probe failed it goes to the configured
\* registration endpoint and register returns a well-formed {status, message}.
C13_OnePostTargetedByProbe ==
    \A r \in Reqs :
       (RegisterSettled(r) /\ ~req[r].a.isProduction) =>
          LET reg == registerResult([rejected |-> req[r].post.rejected,
                                     val |-> req[r].post.val])
          IN  /\ req[r].probed
              /\ req[r].post.n = 1
              /\ req[r].post.url = DevServerRegisterUrl <=> req[r].hasDevServer
              /\ ~req[r].hasDevServer =>
                    /\ req[r].post.url = InngestRegisterUrl
                    /\ ~reg.throws
                    /\ reg.status \in Nat
                    /\ reg.message # ""

\* C14: a register action handled in production mode issues no dev-server
\* reachability request at any point, and its registration POST goes to the
\* configured registration endpoint, never to the dev server.
C14_ProdNeverProbes ==
    \A r \in Reqs :
       ( /\ req[r].a.variant = "register"
         /\ req[r].a.isProduction
         /\ req[r].keySeen # "unread" )
          => /\ req[r].pc # "probe"
             /\ ~req[r].probed
             /\ req[r].post.sent => req[r].post.url = InngestRegisterUrl

\* Every text runStep can report as the error of a fault.
FaultTexts ==
    { runStepBefore(f, d).res.error : f \in ReqFnIds, d \in Payloads }
      \cup { runStepAfter(o).error : o \in EngineOutcomes }

\* JSON.stringify({error}) of a fault text
ErrorJSON(error) == "{\"error\":\"" \o error \o "\"}"

\* C15: a run action that ends in a fault (status 500) has a response body
\* that is a JSON object of the form {error: <message or stack>}.
C15_FaultBodyIsErrorObject ==
    \A r \in Reqs :
       ( /\ req[r].pc = "done"
         /\ req[r].a.variant = "run"
         /\ req[r].resp.kind = "response"
         /\ req[r].resp.status = 500 )
          => req[r].resp.body \in { ErrorJSON(e) : e \in FaultTexts }

\* C16: every response a handler returns, on every branch (200, 206, 405 and
\* 500, the caught-exception branch included), carries the SDK header, whose
\* value is the three parts joined: the prefix "inngest-", the language and
\* version, and the framework name in brackets.
C16_SdkHeaderEverywhere ==
    \A r \in Reqs :
       (req[r].pc = "done" /\ req[r].resp.kind = "response") =>
          /\ req[r].resp.status \in {200, 206, 400, 405, 500}
          /\ req[r].resp.sdk =
                "inngest-" \o "js:v" \o Version \o " (" \o frameworkName \o ")"
          /\ sdkHeader(frameworkName)[1] = "inngest-"
          /\ sdkHeader(frameworkName)[2] = "js:v" \o Version
          /\ sdkHeader(frameworkName)[3] = " (" \o frameworkName \o ")"

\* C16 witness: a callback threw, handleAction's catch block answered 500,
\* and the answer carries the header.
C16_WitnessCaught ==
    \E r \in Reqs :
       /\ Dispatched(r)
       /\ req[r].a.at # ""
       /\ req[r].resp.kind = "response"
       /\ req[r].resp.status = 500
       /\ req[r].resp.sdk = "inngest-js:v" \o Version \o " (express)"

\* The ids of a function list, and whether two of its functions have one id.
IdsOf(functions) == { functions[i] : i \in DOMAIN functions }
HasDuplicate(functions) ==
    \E i, j \in DOMAIN functions : i # j /\ functions[i] = functions[j]

\* C17: constructing a handler from a list in which two functions have the
\* same id fails, so that no handler serves a request; a list with pairwise
\* distinct ids constructs, and every listed function is found by its id.
C17_DuplicatesRejected ==
    ctor.state # "new" =>
       /\ HasDuplicate(ctor.functions) =>
             (ctor.state = "failed" /\ ctor.found = "none")
       /\ ~HasDuplicate(ctor.functions) =>
             /\ ctor.state = "constructed"
             /\ ctor.fns = IdsOf(ctor.functions)
             /\ ctor.asked \in IdsOf(ctor.functions) => ctor.found = "own"

\* The value carries the serialization marker: its own property __serialized
\* is true.
Carries(value) == value.kind \in {"object", "Error"} /\ value.marker = "true"

\* serializeError was applied to the subject and returned.
SerializedOnce ==
    errs.pc \in {"serialized", "reserialized"} /\ ~errs.out1.threw

\* C18: serializeError returns a value that carries the marker unchanged,
\* attaches the marker to a value that does not carry it, and applied to
\* its own result returns that result: serialize(serialize(e)) equals
\* serialize(e).
C18_SerializeIdempotent ==
    /\ (SerializedOnce /\ Carries(errs.subject)) => errs.out1.v = errs.subject
    /\ (SerializedOnce /\ ~Carries(errs.subject)) =>
          /\ errs.out1.v.ref = "made"
          /\ errs.out1.v.marker = "true"
    /\ errs.pc = "reserialized" =>
          /\ ~errs.out2.threw
          /\ errs.out2.v = errs.out1.v

\* C18 witness: an Error was serialized twice; the first result carries the
\* marker and the second is the first.
C18_Witness ==
    /\ errs.pc = "reserialized"
    /\ errs.subject.kind = "Error"
    /\ errs.out1.v.marker = "true"
    /\ errs.out1.v.name = "TypeError"
    /\ errs.out2.v = errs.out1.v

\* The candidate has both required fields as its own properties.
HasBoth(candidate) == Own(candidate, "name") /\ Own(candidate, "message")

\* C19: deserializeError never throws; for a candidate with both name and
\* message (the result of serializeError on an Error is one) it returns an
\* error with that name and message, and for a candidate without one of
\* them, or whose reconstruction throws, it returns the placeholder error
\* "Unknown error; could not reserialize" without a stack.
C19_DeserializeNeverThrows ==
    errs.pc = "deserialized" =>
       LET c == errs.candidate
           d == errs.des
       IN  /\ ~d.threw
           /\ d.v.kind = "Error"
           /\ (HasBoth(c) /\ ~errs.cjsThrew) =>
                 (d.v.name = c.name /\ d.v.message = c.message)
           /\ (~HasBoth(c) \/ errs.cjsThrew) =>
                 /\ d.v.name = "Error"
                 /\ d.v.message = "Unknown error; could not reserialize"
                 /\ d.v.stack = Absent
           /\ (errs.subject.kind = "Error" /\ c # errs.subject) =>
                 /\ HasBoth(c)
                 /\ d.v.name = errs.subject.name
                 /\ d.v.message = errs.subject.message

\* C19 witness: a TypeError went through serializeError and deserializeError
\* and came back with its name and message.
C19_Witness ==
    /\ errs.pc = "deserialized"
    /\ errs.subject.kind = "Error"
    /\ errs.candidate = errs.out1.v
    /\ errs.candidate.marker = "true"
    /\ errs.des.v.name = "TypeError"
    /\ errs.des.v.message = "boom"

\* C19 witness of the placeholder: a candidate without a name was answered
\* with the placeholder error.
C19_WitnessPlaceholder ==
    /\ errs.pc = "deserialized"
    /\ errs.candidate.kind = "object"
    /\ errs.candidate.name = Absent
    /\ errs.des.v = Placeholder

\* C20: every register action is answered in the end, also when the
\* registration endpoint or the dev server never answers.
C20_RegisterIsAnswered ==
    \A r \in Reqs :
       (req[r].a.variant = "register" /\ req[r].pc \in {"run", "fresh"})
          ~> (req[r].pc = "done")

\* The fields of a registration body other than its hash.
Unhashed(body) ==
    [url |-> body.url, deployType |-> body.deployType,
     framework |-> body.framework, appName |-> body.appName,
     functions |-> body.functions, sdk |-> body.sdk, v |-> body.v]

\* The function lists a handler can be constructed from whose functions are
\* not those of `functions`: a function more, a function less, another id.
Neighbours(functions) ==
    { other \in FunctionLists :
        /\ IdsOf(other) # IdsOf(functions)
        /\ ~reduceFns(other, 1, {}).throws }

\* C21: the hash of a registration body is taken over the body without the
\* hash field, so it is a function of url, framework, app name, function
\* descriptors, SDK version and protocol version: the bodies built for
\* registration and for introspection from the same URL and functions have
\* the same hash, and another set of function descriptors gives another hash.
C21_HashOfBody ==
    /\ registerBodyOf(Generic, RequestUrl, ServedList) = registerBody(Generic, RequestUrl)
    /\ \A body \in {ctor.posted, ctor.shown} :
          body # NoBody =>
             /\ body.hash = Sha256Hex(BodyJSON(Unhashed(body)))
             /\ body.framework = frameworkName
             /\ body.appName = AppName
             /\ body.deployType = "ping"
             /\ body.sdk = "js:v" \o Version
             /\ body.v = "0.1"
             /\ \A other \in Neighbours(ctor.functions) :
                   registerBodyOf(frameworkName, body.url, other).hash # body.hash
    /\ (ctor.posted # NoBody /\ ctor.shown # NoBody) =>
          (ctor.posted.url = ctor.shown.url <=> ctor.posted.hash = ctor.shown.hash)

\* C21 witness: a handler with two functions built the body for registration
\* and for introspection from one URL, and the two hashes are the same.
C21_Witness ==
    /\ Len(ctor.functions) = 2
    /\ ctor.posted # NoBody
    /\ ctor.shown # NoBody
    /\ ctor.posted.url = ctor.shown.url
    /\ ctor.posted.hash = ctor.shown.hash

\* The flow r has ended and its request's URL was resolved (the Fresh
\* handler answers 500 before it looks at the method when it was not).
Resolved(r) ==
    /\ req[r].pc = "done"
    /\ frameworkName = Fresh => req[r].keySeen # "unread"

\* The landing page is enabled: the option when it is set, else the
\* environment's flag when it is set, else enabled.
LandingEnabled(cfg, flag) ==
    CASE cfg = "true"  -> TRUE
      [] cfg = "false" -> FALSE
      [] flag = "1"    -> TRUE
      [] flag = "0"    -> FALSE
      [] OTHER         -> TRUE

\* C22: outside production mode a view action gets 405 exactly when the
\* landing page resolves to disabled (the showLandingPage option when set,
\* else the environment flag when set, else enabled); when it is enabled the
\* answer is 200 with the introspection document if introspection was
\* requested and 200 with the landing HTML otherwise.
C22_ViewResolution ==
    \A r \in Reqs :
       (Resolved(r) /\ req[r].a.variant = "view" /\ ~req[r].a.isProduction) =>
          LET res == req[r].resp
              enabled == LandingEnabled(showLandingPage, req[r].a.landing)
          IN  /\ res.kind = "response"
              /\ res.status \in {200, 405}
              /\ res.status = 405 <=> ~enabled
              /\ res.status = 405 => (res.body = "" /\ ~res.doc.present)
              /\ (enabled /\ req[r].a.isIntrospection) =>
                    /\ res.status = 200
                    /\ res.doc.present
                    /\ res.body = DocJSON(res.doc)
              /\ (enabled /\ ~req[r].a.isIntrospection) =>
                    /\ res.status = 200
                    /\ ~res.doc.present
                    /\ res.body = Landing
                    /\ res.contentType = HTMLType

\* C22 witness: the option is not set, the environment's flag says no, and
\* the view action got 405.
C22_WitnessEnvDisabled ==
    \E r \in Reqs :
       /\ Resolved(r)
       /\ req[r].a.variant = "view"
       /\ ~req[r].a.isProduction
       /\ showLandingPage = "undefined"
       /\ req[r].a.landing = "0"
       /\ req[r].resp.status = 405

\* C22 witness: the option says yes although the environment's flag says
\* no, and the view action got the landing page.
C22_WitnessOptionWins ==
    \E r \in Reqs :
       /\ Resolved(r)
       /\ req[r].a.variant = "view"
       /\ ~req[r].a.isProduction
       /\ showLandingPage = "true"
       /\ req[r].a.landing = "0"
       /\ ~req[r].a.isIntrospection
       /\ req[r].resp.status = 200
       /\ req[r].resp.body = Landing

\* None of run, view and register applies to the action.
Unmatched(a) == a.variant \in {"bad-method", "error"}

\* C23: an action to which none of run, view and register applies is
\* answered 405 with an empty body, and handling it runs no step, sends no
\* registration POST and probes no dev server.
C23_UnmatchedIs405 ==
    \A r \in Reqs :
       Unmatched(req[r].a) =>
          /\ ~req[r].engine.called
          /\ ~req[r].post.sent
          /\ req[r].post.n = 0
          /\ ~req[r].probed
          /\ req[r].pc \notin {"body", "engine", "probe", "post"}
          /\ Resolved(r) =>
                /\ req[r].resp.kind = "response"
                /\ req[r].resp.status = 405
                /\ req[r].resp.body = ""

\* C23 witness: a request with another method was answered 405.
C23_Witness ==
    \E r \in Reqs :
       /\ Resolved(r)
       /\ req[r].a.variant = "bad-method"
       /\ req[r].resp.status = 405
       /\ req[r].resp.body = ""
       /\ ~req[r].post.sent

\* C24: in handling a register action the key of the action's environment
\* is adopted before the registration POST is sent, and the POST's
\* Authorization header is "Bearer " followed by the credential of the key
\* the instance has then: it is not empty when the environment carried a key
\* or the instance had one, and it is empty only when no key is set.
C24_CredentialAfterAdoption ==
    [][\A r \in Reqs :
         (~req[r].post.sent /\ req'[r].post.sent) =>
            /\ req'[r].keySeen # "unread"
            /\ req'[r].post.auth = "Bearer " \o hashedSigningKey(signingKey')
            /\ (Raw(req'[r].a.env) # "" \/ req'[r].keySeen # "") =>
                  /\ req'[r].post.auth # "Bearer "
                  /\ req'[r].post.auth =
                        "Bearer " \o signingKey'.prefix
                                  \o Sha256Hex(signingKey'.body)
            /\ req'[r].post.auth = "Bearer " => Raw(signingKey') = ""]_vars

\* C24 witness: the instance had no key, the register action brought one,
\* and the POST carries the credential of that key.
C24_Witness ==
    \E r \in Reqs :
       /\ req[r].a.variant = "register"
       /\ req[r].post.sent
       /\ req[r].keySeen = ""
       /\ Raw(req[r].a.env) # ""
       /\ req[r].post.auth = "Bearer " \o hashedSigningKey(req[r].a.env)
       /\ req[r].post.auth # "Bearer "

\* C25: the Fresh handler returns a response for every request and lets no
\* exception escape: a POST without a function id, or whose body is not
\* JSON, is answered 500, and a method other than GET, PUT and POST is
\* answered 405.
C25_FreshAlwaysResponds ==
    \A r \in Reqs :
       (frameworkName = Fresh /\ req[r].pc = "done") =>
          /\ req[r].resp.kind = "response"
          /\ ( /\ req[r].a.variant = "run"
               /\ (req[r].a.fnId = "" \/ req[r].a.data = NotJSON) )
                => req[r].resp.status = 500
          /\ (req[r].a.variant = "bad-method" /\ req[r].keySeen # "unread")
                => req[r].resp.status = 405

====
